---------------------------- MODULE Spec2Model ----------------------------
(***************************************************************************)
(* Model of the database selector of mrvahepc                              *)
(* (src/mrvahepc/db_selector_ui.py, class DatabaseSelector), under Spec,   *)
(* and of the output relay of the workflow tool                            *)
(* (src/mrvahepc/host_workflow_ui.py, class WorkflowUI), under             *)
(* WorkflowSpec.  The two are separate programs: each specification leaves *)
(* the other program's variables as they start.                            *)
(*                                                                         *)
(* Text is a sequence of one-character strings, so that str.strip(),       *)
(* case folding, ordering and re.search are computed rather than assumed.  *)
(* A stored catalog value is NULL, an integer or a text.                   *)
(***************************************************************************)
EXTENDS Integers, Sequences, FiniteSets, TLC

(***************************************************************************)
(* Bounds                                                                  *)
(***************************************************************************)
\* at most this many filter fields (a dropdown selection or the text of a
\* regex entry) differ from their initial content at once
MaxActive == 2

\* at most this many handlers in a row find the storage layer failing
MaxFailedInARow == 1

\* at most this many commands are started by _execute_command
MaxCommands == 2

\* the processes write at most this many lines in all
MaxLines == 2

(***************************************************************************)
(* Characters and text                                                     *)
(***************************************************************************)
LowerAlpha ==
  <<"a","b","c","d","e","f","g","h","i","j","k","l","m",
    "n","o","p","q","r","s","t","u","v","w","x","y","z">>

UpperAlpha ==
  <<"A","B","C","D","E","F","G","H","I","J","K","L","M",
    "N","O","P","Q","R","S","T","U","V","W","X","Y","Z">>

Digits == <<"0","1","2","3","4","5","6","7","8","9">>

Punctuation == <<" ", "(", ")", "-", ".", "/", "^">>

PunctuationCode == <<32, 40, 41, 45, 46, 47, 94>>

\* code points of the characters the model uses (all ASCII)
OrdTable ==
  [ch \in {LowerAlpha[i] : i \in 1..26} |->
     96 + (CHOOSE i \in 1..26 : LowerAlpha[i] = ch)]
  @@ [ch \in {UpperAlpha[i] : i \in 1..26} |->
     64 + (CHOOSE i \in 1..26 : UpperAlpha[i] = ch)]
  @@ [ch \in {Digits[i] : i \in 1..10} |->
     47 + (CHOOSE i \in 1..10 : Digits[i] = ch)]
  @@ [ch \in {Punctuation[i] : i \in 1..7} |->
     PunctuationCode[CHOOSE i \in 1..7 : Punctuation[i] = ch]]

Ord(ch) == OrdTable[ch]

\* case folding done by re.IGNORECASE
LowerTable ==
  [ch \in DOMAIN OrdTable |->
     IF \E i \in 1..26 : UpperAlpha[i] = ch
       THEN LowerAlpha[CHOOSE i \in 1..26 : UpperAlpha[i] = ch]
       ELSE ch]

Lower(ch) == LowerTable[ch]

IsSpace(ch) == ch = " "

RECURSIVE LStrip(_)
LStrip(s) ==
  IF s = <<>> THEN <<>>
  ELSE IF IsSpace(Head(s)) THEN LStrip(Tail(s)) ELSE s

RECURSIVE RStrip(_)
RStrip(s) ==
  IF s = <<>> THEN <<>>
  ELSE IF IsSpace(s[Len(s)]) THEN RStrip(SubSeq(s, 1, Len(s) - 1)) ELSE s

\* str.strip()
Strip(s) == RStrip(LStrip(s))

\* s < t for Python str and for SQLite's BINARY collation
RECURSIVE TextLess(_, _)
TextLess(s, t) ==
  IF t = <<>> THEN FALSE
  ELSE IF s = <<>> THEN TRUE
  ELSE IF Head(s) = Head(t) THEN TextLess(Tail(s), Tail(t))
  ELSE Ord(Head(s)) < Ord(Head(t))

\* str(n) for a non-negative integer
RECURSIVE IntToStr(_)
IntToStr(n) ==
  IF n < 10 THEN <<Digits[n + 1]>>
  ELSE IntToStr(n \div 10) \o <<Digits[(n % 10) + 1]>>

(***************************************************************************)
(* Stored values                                                           *)
(***************************************************************************)
Null == [t |-> "null"]

TextVal(s) == [t |-> "text", s |-> s]

IntVal(n) == [t |-> "int", n |-> n]

\* str(value) of a non-NULL value
PyStr(v) == IF v.t = "int" THEN IntToStr(v.n) ELSE v.s

\* truth value of a row field in `if row['git_owner'] and row['git_repo']`
Truthy(v) ==
  CASE v.t = "null" -> FALSE
    [] v.t = "int"  -> v.n # 0
    [] v.t = "text" -> v.s # <<>>

\* `text in values` for a str and a list of str/int: a str never equals an int
PyIn(text, values) ==
  \E i \in 1..Len(values) : values[i].t = "text" /\ values[i].s = text

\* SQLite ordering of two values: NULL, then integers, then text
SqlLess(a, b) ==
  CASE a.t = "null" -> b.t # "null"
    [] a.t = "int"  -> (b.t = "int" /\ a.n < b.n) \/ b.t = "text"
    [] a.t = "text" -> b.t = "text" /\ TextLess(a.s, b.s)

\* `column = ?` with a text parameter; an integer column compares by value
SqlEq(v, param) ==
  CASE v.t = "null" -> FALSE
    [] v.t = "int"  -> IntToStr(v.n) = param
    [] v.t = "text" -> v.s = param

(***************************************************************************)
(* re.compile / re.search on the pattern fragment the model uses:          *)
(* literals, ".", "^" and parentheses.                                     *)
(***************************************************************************)
RECURSIVE ParenDepthOk(_, _)
ParenDepthOk(p, depth) ==
  IF p = <<>> THEN depth = 0
  ELSE IF Head(p) = "(" THEN ParenDepthOk(Tail(p), depth + 1)
  ELSE IF Head(p) = ")" THEN depth > 0 /\ ParenDepthOk(Tail(p), depth - 1)
  ELSE ParenDepthOk(Tail(p), depth)

\* re.compile succeeds (does not raise re.error)
ReCompiles(p) == ParenDepthOk(p, 0)

RECURSIVE ReMatchAt(_, _, _, _)
ReMatchAt(p, i, s, j) ==
  IF i > Len(p) THEN TRUE
  ELSE IF p[i] = "^" THEN j = 1 /\ ReMatchAt(p, i + 1, s, j)
  ELSE IF p[i] \in {"(", ")"} THEN ReMatchAt(p, i + 1, s, j)
  ELSE IF p[i] = "." THEN j <= Len(s) /\ ReMatchAt(p, i + 1, s, j + 1)
  ELSE j <= Len(s) /\ Lower(s[j]) = Lower(p[i]) /\ ReMatchAt(p, i + 1, s, j + 1)

\* re.search(p, s, re.IGNORECASE) is not None, for a pattern that compiles
ReSearch(p, s) == \E j \in 1..(Len(s) + 1) : ReMatchAt(p, 1, s, j)

(***************************************************************************)
(* The catalog: table `metadata`                                           *)
(***************************************************************************)
\* self.columns, restricted to the attributes that decide ordering and
\* export and the integer attribute; the seven attributes left out are text
\* attributes handled by the same loops in the same way
Columns == <<"git_owner", "git_repo", "primary_language", "db_file_size">>

NumColumns == Len(Columns)

Row(owner, repo, lang, size) ==
  [git_owner |-> owner, git_repo |-> repo, primary_language |-> lang,
   db_file_size |-> size]

\* One catalog with the cases the filters and the export distinguish: a
\* repository stored in two languages and twice in one language, an owner
\* that sorts after the others stored first, an empty owner, a language
\* with trailing white space, and a NULL size.
\* Rows whose owner, repo or language is NULL are left out:
\* _display_results formats these fields with a width, which raises
\* TypeError for None, and the initial refresh of __init__ shows every row.
Catalog ==
  << Row(TextVal(<<"b">>), TextVal(<<"x">>), TextVal(<<"C","p","p">>), IntVal(7)),
     Row(TextVal(<<"a">>), TextVal(<<"x">>), TextVal(<<"j","a","v","a">>), Null),
     Row(TextVal(<<>>), TextVal(<<"z">>), TextVal(<<"c"," ">>), IntVal(10)),
     Row(TextVal(<<"a">>), TextVal(<<"x">>), TextVal(<<"C","p","p">>), IntVal(10)) >>

Catalogs == {Catalog}

(***************************************************************************)
(* Regex entry texts                                                       *)
(***************************************************************************)
\* "regex filter..."
Placeholder ==
  <<"r","e","g","e","x"," ","f","i","l","t","e","r",".",".",".">>

\* the texts a user types into a regex entry: blank, a pattern that finds
\* some languages, a malformed pattern, a pattern that finds some sizes
RegexTexts ==
  { <<" ">>, <<"^","c">>, <<"(">>, <<"1">> }

\* the texts a regex entry can hold: typed, emptied by entry.delete, or
\* the placeholder
EntryTexts == RegexTexts \cup {<<>>, Placeholder}

(***************************************************************************)
(* State                                                                   *)
(***************************************************************************)
VARIABLES
  catalog,          \* rows of table metadata, in storage order
  all_values,       \* self.all_values: column -> distinct non-NULL values
  dropdown_vars,    \* self.dropdown_vars: column -> selected text
  regex_vars,       \* self.regex_vars: column -> regex entry text
  dropdowns,        \* self.dropdowns[column]['values']: candidate texts
  current_results,  \* self.current_results, as rowids
  results_text,     \* rows shown by self.results_text, as rowids
  status,           \* self.status_var
  dialogs,          \* titles of the dialogs opened by the last handler
  exported,         \* document handed to _show_export_dialog by the last handler
  lastOp            \* kind of the last handler, its refreshes, those that failed,
                    \* and the handlers in a row that met a failing storage layer

VARIABLES
  output_queue,     \* self.output_queue: (tag, text) items, oldest first
  output_text,      \* items inserted into self.output_text, in order
  enqueued,         \* every item put on output_queue so far, in order
  workers,          \* the threads started by _execute_command, in order
  after_queue,      \* callbacks scheduled with root.after(0, ...), in order
  step_buttons,     \* self.step_buttons: step -> background colour
  poller,           \* _process_output_queue: "scheduled" or "running"
  selected_query_path,  \* self.selected_query_path
  session_number,       \* self.session_number
  clicked           \* the steps whose buttons were clicked so far, in order

selector_vars ==
  <<catalog, all_values, dropdown_vars, regex_vars, dropdowns, current_results,
    results_text, status, dialogs, exported, lastOp>>

\* what the user has entered, and the clicks handled
entered == <<selected_query_path, session_number, clicked>>

workflow_vars ==
  <<output_queue, output_text, enqueued, workers, after_queue, step_buttons,
    poller, entered>>

vars == <<selector_vars, workflow_vars>>

\* the steps whose buttons run a command through _execute_command
\* (steps 1 and 2, which run it without a precondition)
Steps == {1, 2}

\* the steps that check what the user entered: Browse Queries, Submit Job,
\* Check Status, Download Results
Browse == 4
Submit == 5
Status == 6
Download == 7

\* the buttons of _create_steps_panel that the model follows
Buttons == Steps \cup {Browse, Submit, Status, Download}

\* _generate_session_number: "mirva-session-{timestamp}"
DefaultSession == <<"m">>

\* WorkflowUI.__init__: nothing queued, nothing shown, no thread started
WorkflowStart ==
  /\ output_queue = <<>>
  /\ output_text = <<>>
  /\ enqueued = <<>>
  /\ workers = <<>>
  /\ after_queue = <<>>
  /\ step_buttons = [step \in Buttons |-> "SystemButtonFace"]
  /\ poller = "scheduled"
  /\ selected_query_path = <<>>
  /\ session_number = DefaultSession
  /\ clicked = <<>>

ColIdx == 1..NumColumns

NoDoc == [format |-> "none"]

(***************************************************************************)
(* SELECT DISTINCT column FROM metadata ORDER BY column                    *)
(***************************************************************************)
RECURSIVE InsertValue(_, _)
InsertValue(sorted, v) ==
  IF sorted = <<>> THEN <<v>>
  ELSE IF Head(sorted) = v THEN sorted
  ELSE IF SqlLess(v, Head(sorted)) THEN <<v>> \o sorted
  ELSE <<Head(sorted)>> \o InsertValue(Tail(sorted), v)

RECURSIVE DistinctOrdered(_, _)
DistinctOrdered(table, column) ==
  IF table = <<>> THEN <<>>
  ELSE InsertValue(DistinctOrdered(Tail(table), column), Head(table)[column])

IsNotNull(v) == v.t # "null"

\* _populate_dropdowns: values = [row[0] for row in ... if row[0] is not None]
PopulateValues(table, column) ==
  SelectSeq(DistinctOrdered(table, column), IsNotNull)

\* what a Combobox keeps for a list of values: their texts
ComboTexts(values) == [i \in 1..Len(values) |-> PyStr(values[i])]

(***************************************************************************)
(* _setup_regexp_function and the query of _update_results                 *)
(***************************************************************************)
\* faulty variant: a pattern that does not compile matches every value
Regexp_MatchAllOnError(pattern, v) ==
  IF v.t = "null" THEN FALSE
  ELSE IF ~ReCompiles(pattern) THEN TRUE
  ELSE ReSearch(pattern, PyStr(v))

\* faulty variant: a NULL value passes every pattern
Regexp_NullMatches(pattern, v) ==
  IF v.t = "null" THEN TRUE
  ELSE IF ~ReCompiles(pattern) THEN FALSE
  ELSE ReSearch(pattern, PyStr(v))

\* regexp(pattern, text) registered as REGEXP
Regexp(pattern, v) ==
  IF v.t = "null" THEN FALSE
  ELSE IF ~ReCompiles(pattern) THEN FALSE
  ELSE ReSearch(pattern, PyStr(v))

\* faulty variant: the query takes the placeholder for a pattern
RegexValue_PlaceholderIsPattern(rv, c) == Strip(rv[c])

\* the regex text of a column as _update_results reads it
RegexValue(rv, c) ==
  LET regex_value == Strip(rv[c])
  IN  IF regex_value = Placeholder THEN <<>> ELSE regex_value

RECURSIVE WhereConditions(_, _, _)

\* faulty variant: the pattern is looked at before the selection
WhereConditions_RegexFirst(dv, rv, c) ==
  IF c > NumColumns THEN <<>>
  ELSE LET dropdown_value == Strip(dv[c])
           regex_value == RegexValue(rv, c)
           rest == WhereConditions(dv, rv, c + 1)
       IN  IF regex_value # <<>>
             THEN <<[column |-> Columns[c], op |-> "REGEXP", param |-> regex_value]>> \o rest
           ELSE IF dropdown_value # <<>>
             THEN <<[column |-> Columns[c], op |-> "=", param |-> dropdown_value]>> \o rest
           ELSE rest

\* faulty variant: a column with a selection and a pattern gets both conditions
WhereConditions_Both(dv, rv, c) ==
  IF c > NumColumns THEN <<>>
  ELSE LET dropdown_value == Strip(dv[c])
           regex_value == RegexValue(rv, c)
           rest == WhereConditions(dv, rv, c + 1)
           eq == IF dropdown_value # <<>>
                   THEN <<[column |-> Columns[c], op |-> "=", param |-> dropdown_value]>>
                   ELSE <<>>
           re == IF regex_value # <<>>
                   THEN <<[column |-> Columns[c], op |-> "REGEXP", param |-> regex_value]>>
                   ELSE <<>>
       IN  eq \o re \o rest

\* where_conditions and params, one entry per constrained column
WhereConditions(dv, rv, c) ==
  IF c > NumColumns THEN <<>>
  ELSE LET dropdown_value == Strip(dv[c])
           regex_value == RegexValue(rv, c)
           rest == WhereConditions(dv, rv, c + 1)
       IN  IF dropdown_value # <<>>
             THEN <<[column |-> Columns[c], op |-> "=", param |-> dropdown_value]>> \o rest
           ELSE IF regex_value # <<>>
             THEN <<[column |-> Columns[c], op |-> "REGEXP", param |-> regex_value]>> \o rest
           ELSE rest

CondHolds(row, cond) ==
  IF cond.op = "=" THEN SqlEq(row[cond.column], cond.param)
  ELSE Regexp(cond.param, row[cond.column])

\* WHERE c1 AND c2 AND ...
RowMatches(row, conds) == \A i \in 1..Len(conds) : CondHolds(row, conds[i])

\* ORDER BY git_owner, git_repo, primary_language
OrderKey == <<"git_owner", "git_repo", "primary_language">>

RECURSIVE KeyLess(_, _, _)
KeyLess(r1, r2, k) ==
  IF k > Len(OrderKey) THEN FALSE
  ELSE IF SqlLess(r1[OrderKey[k]], r2[OrderKey[k]]) THEN TRUE
  ELSE IF SqlLess(r2[OrderKey[k]], r1[OrderKey[k]]) THEN FALSE
  ELSE KeyLess(r1, r2, k + 1)

RowLess(r1, r2) == KeyLess(r1, r2, 1)

\* A result row is kept as its rowid, its position in the table.
\* Rows with equal keys keep their storage order.
RECURSIVE InsertRow(_, _, _)
InsertRow(table, sorted, r) ==
  IF sorted = <<>> THEN <<r>>
  ELSE IF RowLess(table[r], table[Head(sorted)]) THEN <<r>> \o sorted
  ELSE <<Head(sorted)>> \o InsertRow(table, Tail(sorted), r)

\* faulty variant: the query without its ORDER BY
OrderBy_Unsorted(table, ids) == ids

RECURSIVE OrderBy(_, _)
OrderBy(table, ids) ==
  IF ids = <<>> THEN <<>>
  ELSE InsertRow(table, OrderBy(table, SubSeq(ids, 1, Len(ids) - 1)), ids[Len(ids)])

\* conn.execute(query, params).fetchall() for
\* SELECT * FROM metadata [WHERE ...] ORDER BY ...
Execute(table, conds) ==
  LET Keep(id) == RowMatches(table[id], conds)
  IN  OrderBy(table, SelectSeq([i \in 1..Len(table) |-> i], Keep))

\* the query of _update_results
Query(table, dv, rv) == Execute(table, WhereConditions(dv, rv, 1))

\* the rows behind a sequence of rowids
Rows(ids) == [i \in 1..Len(ids) |-> catalog[ids[i]]]

(***************************************************************************)
(* Handlers.  A handler works on a record u of the widget state:           *)
(*   dv, rv, dd      dropdown_vars, regex_vars, dropdowns                  *)
(*   res, txt        current_results, results_text                         *)
(*   status, dialogs status_var, dialogs opened so far                     *)
(*   n, injected     refreshes run so far, and how many of them failed     *)
(*   down            conn.execute raises sqlite3.Error                     *)
(* A handler runs to its end on the UI thread; the storage layer is taken  *)
(* to answer all of its queries or none of them.                           *)
(***************************************************************************)

StartHandler(down) ==
  [dv |-> dropdown_vars, rv |-> regex_vars, dd |-> dropdowns,
   res |-> current_results, txt |-> results_text, status |-> status,
   dialogs |-> {}, n |-> 0, injected |-> 0, down |-> down]

\* _display_results: the rows shown (their layout is not modelled)
DisplayResults(rows) == rows

\* faulty variant: a failed query also empties the cached and shown results
UpdateResults_ClearOnError(u) ==
  LET k == u.n + 1
  IN  IF u.down
        THEN [u EXCEPT !.n = k,
                       !.injected = @ + 1,
                       !.res = <<>>,
                       !.txt = DisplayResults(<<>>),
                       !.dialogs = @ \cup {"Query Error"},
                       !.status = [kind |-> "Query failed", n |-> 0]]
        ELSE LET rows == Query(catalog, u.dv, u.rv)
             IN  [u EXCEPT !.n = k,
                           !.res = rows,
                           !.txt = DisplayResults(rows),
                           !.status = [kind |-> "Found", n |-> Len(rows)]]

\* _update_results
UpdateResults(u) ==
  LET k == u.n + 1
  IN  IF u.down
        THEN [u EXCEPT !.n = k,
                       !.injected = @ + 1,
                       !.dialogs = @ \cup {"Query Error"},
                       !.status = [kind |-> "Query failed", n |-> 0]]
        ELSE LET rows == Query(catalog, u.dv, u.rv)
             IN  [u EXCEPT !.n = k,
                           !.res = rows,
                           !.txt = DisplayResults(rows),
                           !.status = [kind |-> "Found", n |-> Len(rows)]]

\* filtered_values of _update_dropdown_from_regex for the entry text and
\* the values of one column
FilterValues(text, all) ==
  LET regex_text == Strip(text)
      Hit(value) == ReSearch(regex_text, PyStr(value))
      empty == <<TextVal(<<>>)>>
  IN  IF regex_text = <<>> \/ regex_text = Placeholder THEN empty \o all
      ELSE IF ReCompiles(regex_text) THEN empty \o SelectSeq(all, Hit)
      ELSE empty \o all

\* self.dropdowns[column]['values'] = values
WidgetValues(values) == ComboTexts(values)

\* faulty variant: the pattern is never applied to the values
FilteredValues_Unfiltered(rv, c) ==
  <<TextVal(<<>>)>> \o all_values[Columns[c]]

\* faulty variant: a pattern that does not compile leaves only the empty choice
FilteredValues_EmptyOnError(rv, c) ==
  LET regex_text == Strip(rv[c])
      all == all_values[Columns[c]]
      Hit(value) == ReSearch(regex_text, PyStr(value))
      empty == <<TextVal(<<>>)>>
  IN  IF regex_text = <<>> \/ regex_text = Placeholder THEN empty \o all
      ELSE IF ReCompiles(regex_text) THEN empty \o SelectSeq(all, Hit)
      ELSE empty

\* filtered_values of _update_dropdown_from_regex for one column
FilteredValues(rv, c) == FilterValues(rv[c], all_values[Columns[c]])

\* Variable traces: a write to a variable runs its handler, except while a
\* trace of that same variable is running (busy).
DropdownVar(c) == <<"dropdown", c>>

RegexVar(c) == <<"regex", c>>

RECURSIVE OnFilterChange(_, _)
RECURSIVE UpdateDropdownFrom(_, _, _)

\* faulty variant: a selection is also dropped when its column has a pattern
UpdateDropdownFrom_DropsOnPattern(u, busy, c) ==
  IF c > NumColumns THEN u
  ELSE LET filtered_values == FilteredValues(u.rv, c)
           current_selection == u.dv[c]
           u1 == [u EXCEPT !.dd[c] = WidgetValues(filtered_values)]
       IN  IF PyIn(current_selection, filtered_values)
                /\ (current_selection = <<>> \/ RegexValue(u.rv, c) = <<>>)
             THEN UpdateDropdownFrom(u1, busy, c + 1)
             ELSE LET u2 == [u1 EXCEPT !.dv[c] = <<>>]
                      u3 == IF DropdownVar(c) \in busy THEN u2
                            ELSE OnFilterChange(u2, busy \cup {DropdownVar(c)})
                  IN  UpdateDropdownFrom(u3, busy, c + 1)

\* faulty variant: a selection that left the candidate list is kept
UpdateDropdownFrom_KeepSelection(u, busy, c) ==
  IF c > NumColumns THEN u
  ELSE LET filtered_values == FilteredValues(u.rv, c)
           u1 == [u EXCEPT !.dd[c] = WidgetValues(filtered_values)]
       IN  UpdateDropdownFrom(u1, busy, c + 1)

\* the loop of _update_dropdown_from_regex from column c on
UpdateDropdownFrom(u, busy, c) ==
  IF c > NumColumns THEN u
  ELSE LET filtered_values == FilteredValues(u.rv, c)
           current_selection == u.dv[c]
           u1 == [u EXCEPT !.dd[c] = WidgetValues(filtered_values)]
       IN  IF PyIn(current_selection, filtered_values)
             THEN UpdateDropdownFrom(u1, busy, c + 1)
             ELSE LET u2 == [u1 EXCEPT !.dv[c] = <<>>]
                      u3 == IF DropdownVar(c) \in busy THEN u2
                            ELSE OnFilterChange(u2, busy \cup {DropdownVar(c)})
                  IN  UpdateDropdownFrom(u3, busy, c + 1)

\* _update_dropdown_from_regex
UpdateDropdownFromRegex(u, busy) == UpdateDropdownFrom(u, busy, 1)

\* _on_filter_change
OnFilterChange(u, busy) == UpdateResults(UpdateDropdownFromRegex(u, busy))

\* faulty variant: a regex edit narrows the dropdowns and skips the refresh
OnRegexChange_NoRefresh(u, busy) == UpdateDropdownFromRegex(u, busy)

\* _on_regex_change
OnRegexChange(u, busy) == UpdateResults(UpdateDropdownFromRegex(u, busy))

\* dropdown_vars[c].set(text) outside any trace
SetDropdown(u, c, text) ==
  OnFilterChange([u EXCEPT !.dv[c] = text], {DropdownVar(c)})

\* a write of the regex entry to its variable
SetRegex(u, c, text) ==
  OnRegexChange([u EXCEPT !.rv[c] = text], {RegexVar(c)})

\* entry.delete(0, tk.END): an empty entry is left alone
EntryDelete(u, c) == IF u.rv[c] = <<>> THEN u ELSE SetRegex(u, c, <<>>)

\* entry.insert(0, "regex filter...") into an emptied entry
EntryInsertPlaceholder(u, c) == SetRegex(u, c, u.rv[c] \o Placeholder)

\* for var in self.dropdown_vars.values(): var.set('')
RECURSIVE ClearDropdowns(_, _)
ClearDropdowns(u, c) ==
  IF c > NumColumns THEN u
  ELSE LET u1 == SetDropdown(u, c, <<>>)
       IN  IF u1.n > u.n THEN ClearDropdowns(u1, c + 1) ELSE u1

\* for column in self.columns: delete the entry, insert the placeholder
RECURSIVE ClearRegexEntries(_, _)
ClearRegexEntries(u, c) ==
  IF c > NumColumns THEN u
  ELSE LET u1 == EntryDelete(u, c)
           u2 == EntryInsertPlaceholder(u1, c)
       IN  IF u1.n >= u.n /\ u2.n > u1.n THEN ClearRegexEntries(u2, c + 1) ELSE u2

\* faulty variant: the button resets the selections and leaves the entries
ClearFilters_KeepsPatterns(u) ==
  LET u1 == ClearDropdowns(u, 1)
  IN  UpdateResults(UpdateDropdownFromRegex(u1, {}))

\* _clear_filters
ClearFilters(u) ==
  LET u1 == ClearDropdowns(u, 1)
      u2 == ClearRegexEntries(u1, 1)
  IN  UpdateResults(UpdateDropdownFromRegex(u2, {}))

\* _on_regex_focus_in, when the entry holds the placeholder
OnRegexFocusIn(u, c) == EntryDelete(u, c)

\* _on_regex_focus_out, when the entry is blank
OnRegexFocusOut(u, c) == EntryInsertPlaceholder(EntryDelete(u, c), c)

(***************************************************************************)
(* Export                                                                  *)
(***************************************************************************)
\* f"{row['git_owner']}/{row['git_repo']}"
RepoName(row) == PyStr(row["git_owner"]) \o <<"/">> \o PyStr(row["git_repo"])

SeqContains(seq, x) == \E i \in 1..Len(seq) : seq[i] = x

RECURSIVE CollectRepositories(_, _)

\* faulty variant: a repository is listed once per row
CollectRepositories_NoDedupe(rows, repositories) ==
  IF rows = <<>> THEN repositories
  ELSE LET row == Head(rows)
       IN  IF Truthy(row["git_owner"]) /\ Truthy(row["git_repo"])
             THEN CollectRepositories(Tail(rows), Append(repositories, RepoName(row)))
             ELSE CollectRepositories(Tail(rows), repositories)

\* the loop of _get_repository_list
CollectRepositories(rows, repositories) ==
  IF rows = <<>> THEN repositories
  ELSE LET row == Head(rows)
       IN  IF Truthy(row["git_owner"]) /\ Truthy(row["git_repo"])
                /\ ~SeqContains(repositories, RepoName(row))
             THEN CollectRepositories(Tail(rows), Append(repositories, RepoName(row)))
             ELSE CollectRepositories(Tail(rows), repositories)

RECURSIVE InsertText(_, _)
InsertText(sorted, x) ==
  IF sorted = <<>> THEN <<x>>
  ELSE IF TextLess(x, Head(sorted)) THEN <<x>> \o sorted
  ELSE <<Head(sorted)>> \o InsertText(Tail(sorted), x)

\* sorted(list of str)
RECURSIVE Sorted(_)
Sorted(seq) ==
  IF seq = <<>> THEN <<>>
  ELSE InsertText(Sorted(SubSeq(seq, 1, Len(seq) - 1)), seq[Len(seq)])

\* _get_repository_list
GetRepositoryList(rows) == Sorted(CollectRepositories(rows, <<>>))

\* export_data of _export_gh_mrva
GhMrvaDocument(repositories) ==
  [format |-> "gh-mrva",
   body |-> ("mirva-list" :> repositories)]

\* export_data of _export_vscode
VscodeDocument(repositories) ==
  [format |-> "vscode",
   body |-> [version |-> 1,
             databases |->
               [variantAnalysis |->
                  [repositoryLists |->
                     <<[name |-> "mirva-list", repositories |-> repositories]>>,
                   owners |-> <<>>,
                   repositories |-> <<>>]],
             selected |-> [kind |-> "variantAnalysisUserDefinedList",
                           listName |-> "mirva-list"]]]

(***************************************************************************)
(* Initial state: __init__                                                 *)
(***************************************************************************)
ColumnNames == {Columns[c] : c \in ColIdx}

FullCandidates(values) == WidgetValues(<<TextVal(<<>>)>> \o values)

Init ==
  \E table \in Catalogs, failed \in BOOLEAN :
    LET values == [name \in ColumnNames |-> PopulateValues(table, name)]
        rows == Query(table, [c \in ColIdx |-> <<>>], [c \in ColIdx |-> Placeholder])
    IN  /\ catalog = table
        /\ all_values = values
        /\ dropdown_vars = [c \in ColIdx |-> <<>>]
        /\ regex_vars = [c \in ColIdx |-> Placeholder]
        /\ dropdowns = [c \in ColIdx |-> FullCandidates(values[Columns[c]])]
        /\ current_results = IF failed THEN <<>> ELSE rows
        /\ results_text = IF failed THEN <<>> ELSE DisplayResults(rows)
        /\ status = IF failed THEN [kind |-> "Query failed", n |-> 0]
                    ELSE [kind |-> "Found", n |-> Len(rows)]
        /\ dialogs = IF failed THEN {"Query Error"} ELSE {}
        /\ exported = NoDoc
        /\ WorkflowStart
        /\ lastOp = [op |-> "init", refreshes |-> 1,
                     failed |-> IF failed THEN 1 ELSE 0,
                     streak |-> IF failed THEN 1 ELSE 0]

(***************************************************************************)
(* Actions: one per user event                                             *)
(***************************************************************************)
ActiveCount ==
  Cardinality({c \in ColIdx : dropdown_vars[c] # <<>>})
  + Cardinality({c \in ColIdx : regex_vars[c] # Placeholder})

\* the user may fill in a field that is in its initial state
MayActivate(isActive) == isActive \/ ActiveCount < MaxActive

\* _show_export_dialog: the dialog takes the grab (dialog.grab_set()), so
\* the main window handles no event while it is open.  Closing the dialog is
\* not modelled: every handler that can follow overwrites status, dialogs
\* and exported, and so leads to a state that is reached without the export.
ExportDialogOpen == exported.format # "none"

\* the storage layer may fail in the next handler
MayFail(down) == down => lastOp.streak < MaxFailedInARow

\* the state a filter handler leaves behind
Commit(u, op) ==
  /\ dropdown_vars' = u.dv
  /\ regex_vars' = u.rv
  /\ dropdowns' = u.dd
  /\ current_results' = u.res
  /\ results_text' = u.txt
  /\ status' = u.status
  /\ dialogs' = u.dialogs
  /\ exported' = NoDoc
  /\ lastOp' = [op |-> op, refreshes |-> u.n, failed |-> u.injected,
                streak |-> IF u.injected > 0 THEN lastOp.streak + 1 ELSE 0]
  /\ UNCHANGED <<catalog, all_values>>
  /\ UNCHANGED workflow_vars

\* the user picks an entry of a dropdown
SelectValue(c, text, down) ==
  /\ ~ExportDialogOpen
  /\ MayFail(down)
  /\ SeqContains(dropdowns[c], text)
  /\ MayActivate(dropdown_vars[c] # <<>> \/ text = <<>>)
  /\ Commit(SetDropdown(StartHandler(down), c, text), "select")

\* the user changes the text of a regex entry
EditRegex(c, text, down) ==
  /\ ~ExportDialogOpen
  /\ MayFail(down)
  /\ text # regex_vars[c]
  /\ MayActivate(regex_vars[c] # Placeholder \/ text = Placeholder)
  /\ Commit(SetRegex(StartHandler(down), c, text), "edit")

\* the regex entry gets the focus
FocusIn(c, down) ==
  /\ ~ExportDialogOpen
  /\ MayFail(down)
  /\ regex_vars[c] = Placeholder
  /\ MayActivate(FALSE)
  /\ Commit(OnRegexFocusIn(StartHandler(down), c), "focus")

\* the regex entry loses the focus
FocusOut(c, down) ==
  /\ ~ExportDialogOpen
  /\ MayFail(down)
  /\ Strip(regex_vars[c]) = <<>>
  /\ Commit(OnRegexFocusOut(StartHandler(down), c), "focus")

\* button "Clear All Filters"
ClearAll(down) ==
  /\ ~ExportDialogOpen
  /\ MayFail(down)
  /\ Commit(ClearFilters(StartHandler(down)), "clear")

\* the format as the status line names it
FormatName(op) == IF op = "export_gh_mrva" THEN "GH-MRVA" ELSE "VS Code"

\* export_data of the export named op
ExportDocument(op, repositories) ==
  IF op = "export_gh_mrva" THEN GhMrvaDocument(repositories)
  ELSE VscodeDocument(repositories)

\* faulty variant: the export gives up the cached results once it has
\* produced its document
Export_DropsResults(op, title) ==
  /\ ~ExportDialogOpen
  /\ IF current_results = <<>>
       THEN /\ dialogs' = {"No Results"}
            /\ exported' = NoDoc
            /\ status' = status
            /\ current_results' = current_results
       ELSE LET repositories == GetRepositoryList(Rows(current_results))
            IN  /\ exported' = ExportDocument(op, repositories)
                /\ dialogs' = {title}
                /\ status' = [kind |-> "Exported", n |-> Len(repositories),
                              format |-> FormatName(op)]
                /\ current_results' = <<>>
  /\ lastOp' = [op |-> op, refreshes |-> 0, failed |-> 0,
                streak |-> lastOp.streak]
  /\ UNCHANGED <<catalog, all_values, dropdown_vars, regex_vars, dropdowns,
                 results_text>>
  /\ UNCHANGED workflow_vars

\* faulty variant: the export does not look for an empty result
Export_NoEmptyCheck(op, title) ==
  /\ ~ExportDialogOpen
  /\ LET repositories == GetRepositoryList(Rows(current_results))
     IN  /\ exported' = ExportDocument(op, repositories)
         /\ dialogs' = {title}
         /\ status' = [kind |-> "Exported", n |-> Len(repositories),
                           format |-> FormatName(op)]
  /\ lastOp' = [op |-> op, refreshes |-> 0, failed |-> 0,
                streak |-> lastOp.streak]
  /\ UNCHANGED <<catalog, all_values, dropdown_vars, regex_vars, dropdowns,
                 current_results, results_text>>
  /\ UNCHANGED workflow_vars

\* the body shared by _export_gh_mrva and _export_vscode
Export(op, title) ==
  /\ ~ExportDialogOpen
  /\ IF current_results = <<>>
       THEN /\ dialogs' = {"No Results"}
            /\ exported' = NoDoc
            /\ status' = status
       ELSE LET repositories == GetRepositoryList(Rows(current_results))
            IN  /\ exported' = ExportDocument(op, repositories)
                /\ dialogs' = {title}
                /\ status' = [kind |-> "Exported", n |-> Len(repositories),
                           format |-> FormatName(op)]
  /\ lastOp' = [op |-> op, refreshes |-> 0, failed |-> 0,
                streak |-> lastOp.streak]
  /\ UNCHANGED <<catalog, all_values, dropdown_vars, regex_vars, dropdowns,
                 current_results, results_text>>
  /\ UNCHANGED workflow_vars

ExportGhMrva == Export("export_gh_mrva", "GH-MRVA Export Format")

ExportVscode == Export("export_vscode", "VS Code Export Format")

Next ==
  \/ \E c \in ColIdx, down \in BOOLEAN :
       \E i \in 1..Len(dropdowns[c]) : SelectValue(c, dropdowns[c][i], down)
  \/ \E c \in ColIdx, text \in RegexTexts, down \in BOOLEAN :
       EditRegex(c, text, down)
  \/ \E c \in ColIdx, down \in BOOLEAN : FocusIn(c, down)
  \/ \E c \in ColIdx, down \in BOOLEAN : FocusOut(c, down)
  \/ \E down \in BOOLEAN : ClearAll(down)
  \/ ExportGhMrva
  \/ ExportVscode

Spec == Init /\ [][Next]_vars

(***************************************************************************)
(* The workflow tool: commands run in threads, output relayed by a queue.  *)
(***************************************************************************)

\* the exit codes a process can return
ExitCodes == {0, 1}

\* the exceptions run() can meet: Popen raising, reading stdout raising
LaunchError == "OSError"
ReadError == "UnicodeDecodeError"

\* An item of output_queue: the tag, and the text, which is kept as its
\* parts: what kind of message it is, the step number it names, and the
\* line, exit code or exception text it carries.  cmd is the command the
\* item came from (the position of its thread in workers).
Item(tag, kind, cmd, step, detail) ==
  [tag |-> tag, kind |-> kind, cmd |-> cmd, step |-> step, detail |-> detail]

\* _log_command: ("command", "\n$ {command}\n")
LogItem(cmd, step) == Item("command", "$", cmd, step, 0)

\* _append_output(line): (tag or "normal", text)
LineItem(cmd, step, i) == Item("normal", "line", cmd, step, i)

\* the colour run() asks for once process.wait() has returned
ColorFor_AlwaysGreen(returncode) == "green"

ColorFor(returncode) == IF returncode = 0 THEN "green" ELSE "red"

\* the message run() appends once process.wait() has returned
ExitItem(cmd, step, returncode) ==
  IF returncode = 0
    THEN Item("command", "completed successfully", cmd, step, 0)
    ELSE Item("error", "failed with exit code", cmd, step, returncode)

\* the message of the except branch: "\nError: {str(e)}\n"
ErrorItem(cmd, step, e) == Item("error", "Error", cmd, step, e)

\* Queue.put from any thread; enqueued records the order of the puts
Put(item) ==
  /\ output_queue' = Append(output_queue, item)
  /\ enqueued' = Append(enqueued, item)

\* a thread of _execute_command, at the start of run()
NewWorker(step) ==
  [step |-> step, pc |-> "popen", emitted |-> 0, returncode |-> -1,
   exc |-> "", requested |-> ""]

\* the main thread is between callbacks: the poller is not in its loop
MainThreadIdle == poller = "scheduled"

\* _execute_command, on the main thread (a click on a step's button):
\* the command is logged, then its thread is started
ExecuteCommand(step) ==
  /\ MainThreadIdle
  /\ Len(workers) < MaxCommands
  /\ Put(LogItem(Len(workers) + 1, step))
  /\ workers' = Append(workers, NewWorker(step))
  /\ clicked' = Append(clicked, step)
  /\ UNCHANGED <<output_text, after_queue, step_buttons, poller>>
  /\ UNCHANGED <<selected_query_path, session_number>>
  /\ UNCHANGED selector_vars

\* run(): self.root.after(0, self._update_button_color, step_num, color);
\* the _append_output that follows it is the thread's next step
RequestColor(k, color, returncode, exc) ==
  /\ after_queue' = Append(after_queue, <<workers[k].step, color>>)
  /\ workers' = [workers EXCEPT ![k].pc = "report",
                                ![k].returncode = returncode,
                                ![k].exc = exc,
                                ![k].requested = color]

\* run(): subprocess.Popen returns, or raises and the except branch asks
\* for red
Launch(k) ==
  /\ workers[k].pc = "popen"
  /\ \/ /\ workers' = [workers EXCEPT ![k].pc = "reading"]
        /\ UNCHANGED after_queue
     \/ RequestColor(k, "red", -1, LaunchError)
  /\ UNCHANGED <<output_queue, output_text, enqueued, step_buttons, poller>>
  /\ UNCHANGED entered
  /\ UNCHANGED selector_vars

\* the lines appended so far by the first n threads
RECURSIVE LinesEmitted(_)
LinesEmitted(n) ==
  IF n = 0 THEN 0 ELSE workers[n].emitted + LinesEmitted(n - 1)

\* run(): one round of "for line in process.stdout": the next line is
\* appended, or reading it raises and the except branch asks for red
ReadLine(k) ==
  /\ workers[k].pc = "reading"
  /\ \/ /\ LinesEmitted(Len(workers)) < MaxLines
        /\ Put(LineItem(k, workers[k].step, workers[k].emitted + 1))
        /\ workers' = [workers EXCEPT ![k].emitted = @ + 1]
        /\ UNCHANGED after_queue
     \/ /\ RequestColor(k, "red", -1, ReadError)
        /\ UNCHANGED <<output_queue, enqueued>>
  /\ UNCHANGED <<output_text, step_buttons, poller>>
  /\ UNCHANGED entered
  /\ UNCHANGED selector_vars

\* run(): stdout is at its end, process.wait() returns, and the branch of
\* the exit code asks for its colour
Wait(k) ==
  /\ workers[k].pc = "reading"
  /\ \E returncode \in ExitCodes :
       RequestColor(k, ColorFor(returncode), returncode, "")
  /\ UNCHANGED <<output_queue, output_text, enqueued, step_buttons, poller>>
  /\ UNCHANGED entered
  /\ UNCHANGED selector_vars

\* run(): the _append_output that follows the colour request; run() ends
Report(k) ==
  /\ workers[k].pc = "report"
  /\ Put(IF workers[k].exc # ""
           THEN ErrorItem(k, workers[k].step, workers[k].exc)
           ELSE ExitItem(k, workers[k].step, workers[k].returncode))
  /\ workers' = [workers EXCEPT ![k].pc = "done"]
  /\ UNCHANGED <<output_text, after_queue, step_buttons, poller>>
  /\ UNCHANGED entered
  /\ UNCHANGED selector_vars

\* the background colour _update_button_color configures
Background(color) ==
  CASE color = "green" -> "#90EE90"
    [] color = "red" -> "#FFB6C6"
    [] OTHER -> "SystemButtonFace"

\* the event loop runs the oldest root.after(0, ...) callback:
\* _update_button_color(step_num, color)
UpdateButtonColor ==
  /\ MainThreadIdle
  /\ after_queue # <<>>
  /\ LET step == Head(after_queue)[1]
         color == Head(after_queue)[2]
     IN step_buttons' = IF step \in DOMAIN step_buttons
                          THEN [step_buttons EXCEPT ![step] = Background(color)]
                          ELSE step_buttons
  /\ after_queue' = Tail(after_queue)
  /\ UNCHANGED <<output_queue, output_text, enqueued, workers, poller>>
  /\ UNCHANGED entered
  /\ UNCHANGED selector_vars

\* the event loop runs the scheduled _process_output_queue
PollerStart ==
  /\ poller = "scheduled"
  /\ poller' = "running"
  /\ UNCHANGED <<output_queue, output_text, enqueued, workers, after_queue,
                 step_buttons>>
  /\ UNCHANGED entered
  /\ UNCHANGED selector_vars

\* faulty variant: the item is inserted at the start of the display
PollerGet_InsertAtStart ==
  /\ poller = "running"
  /\ output_queue # <<>>
  /\ output_text' = <<Head(output_queue)>> \o output_text
  /\ output_queue' = Tail(output_queue)
  /\ UNCHANGED <<enqueued, workers, after_queue, step_buttons, poller>>
  /\ UNCHANGED entered
  /\ UNCHANGED selector_vars

\* _process_output_queue, one round of its loop: get_nowait() returns the
\* oldest item, which is inserted at tk.END
PollerGet ==
  /\ poller = "running"
  /\ output_queue # <<>>
  /\ output_text' = Append(output_text, Head(output_queue))
  /\ output_queue' = Tail(output_queue)
  /\ UNCHANGED <<enqueued, workers, after_queue, step_buttons, poller>>
  /\ UNCHANGED entered
  /\ UNCHANGED selector_vars

\* faulty variant: the queue is found empty and no next run is scheduled
PollerEmpty_NoReschedule ==
  /\ poller = "running"
  /\ output_queue = <<>>
  /\ poller' = "stopped"
  /\ UNCHANGED <<output_queue, output_text, enqueued, workers, after_queue,
                 step_buttons>>
  /\ UNCHANGED entered
  /\ UNCHANGED selector_vars

\* _process_output_queue: get_nowait() raises Empty; the finally clause
\* schedules the next run
PollerEmpty ==
  /\ poller = "running"
  /\ output_queue = <<>>
  /\ poller' = "scheduled"
  /\ UNCHANGED <<output_queue, output_text, enqueued, workers, after_queue,
                 step_buttons>>
  /\ UNCHANGED entered
  /\ UNCHANGED selector_vars

WorkflowNext ==
  \/ \E step \in Steps : ExecuteCommand(step)
  \/ \E k \in DOMAIN workers : Launch(k)
  \/ \E k \in DOMAIN workers : ReadLine(k)
  \/ \E k \in DOMAIN workers : Wait(k)
  \/ \E k \in DOMAIN workers : Report(k)
  \/ UpdateButtonColor
  \/ PollerStart
  \/ PollerGet
  \/ PollerEmpty

(***************************************************************************)
(* The steps that check what the user entered before they run a command.   *)
(***************************************************************************)

\* the sample queries _ensure_sample_queries looks for
NumSampleQueries == 2

\* what _ensure_sample_queries meets for the sample files: they exist,
\* they are written, or writing them raises
SampleOutcomes == {"exists", "created", "failed"}

\* the texts the Session widget can hold
SessionTexts == {<<>>, <<" ">>, DefaultSession}

\* the file the dialog of step 4 returns: none (cancelled), or a query
QueryFiles == {<<>>, <<"q">>}

\* the texts the Selection JSON entry can hold: a path under the user's
\* home, and one under the home of a user the machine does not have
SelectionPaths == {<<"~", "/", "s">>, <<"~", "x", "/", "s">>}

\* _get_path: Path(path).expanduser() raises RuntimeError when the path
\* starts with "~user" and no home directory is found for that user
HomeResolves(path) == ~(Len(path) >= 2 /\ path[1] = "~" /\ path[2] # "/")

\* an item put by a step handler itself, on the main thread: it comes
\* from no command
Note(tag, text, step) == Item(tag, text, 0, step, 0)

\* several puts in a row by one handler
PutAll(items) ==
  /\ output_queue' = output_queue \o items
  /\ enqueued' = enqueued \o items

\* _update_button_color called by a handler, not through root.after
SetButton(step, color) ==
  step_buttons' = IF step \in DOMAIN step_buttons
                    THEN [step_buttons EXCEPT ![step] = Background(color)]
                    ELSE step_buttons

\* the event loop can run a button's handler, and the clicks are not used up
CanClick == MainThreadIdle /\ Len(clicked) < MaxCommands

\* a handler that ends without starting a command: it has put items and
\* may have coloured its button
EndsWithoutCommand(step) ==
  /\ clicked' = Append(clicked, step)
  /\ UNCHANGED <<output_text, workers, after_queue, poller>>
  /\ UNCHANGED selector_vars

\* _on_session_text_modified: the stripped text of the Session widget
EditSession(text) ==
  /\ MainThreadIdle
  /\ session_number' = Strip(text)
  /\ UNCHANGED <<output_queue, output_text, enqueued, workers, after_queue,
                 step_buttons, poller, selected_query_path, clicked>>
  /\ UNCHANGED selector_vars

\* the items _ensure_sample_queries puts
SampleNotes(outcome) ==
  IF outcome = "exists" THEN <<>>
  ELSE [f \in 1..NumSampleQueries |->
          IF outcome = "created"
            THEN Note("normal", "Created sample query", f)
            ELSE Note("error", "Warning: Could not create", f)]

\* _step4_browse_queries
BrowseQueries(outcome, query_file) ==
  /\ CanClick
  /\ IF query_file # <<>>
       THEN /\ selected_query_path' = query_file
            /\ PutAll(SampleNotes(outcome)
                      \o <<Note("command", "$ Selected query", Browse),
                           Note("normal", "Query selected", Browse)>>)
            /\ SetButton(Browse, "green")
       ELSE /\ PutAll(SampleNotes(outcome)
                      \o <<Note("error", "No query file selected", Browse)>>)
            /\ UNCHANGED <<selected_query_path, step_buttons>>
  /\ UNCHANGED session_number
  /\ EndsWithoutCommand(Browse)

\* the handler puts an error item and colours its button red
Refuse(step, text) ==
  /\ Put(Note("error", text, step))
  /\ SetButton(step, "red")
  /\ UNCHANGED <<selected_query_path, session_number>>
  /\ EndsWithoutCommand(step)

\* the handler raises: Tk reports the exception and the event loop goes on
Raises(step) ==
  /\ UNCHANGED <<output_queue, enqueued, step_buttons, selected_query_path,
                 session_number>>
  /\ EndsWithoutCommand(step)

\* _step5_submit_job: the Selection JSON path is expanded first, then the
\* query file and the session are checked
SubmitJob(selection_json) ==
  /\ CanClick
  /\ IF ~HomeResolves(selection_json) THEN Raises(Submit)
     ELSE IF selected_query_path = <<>>
       THEN Refuse(Submit, "Error: No query file selected")
     ELSE IF session_number = <<>>
       THEN Refuse(Submit, "Error: No session number provided")
     ELSE ExecuteCommand(Submit)

\* _step6_check_status
CheckStatus ==
  /\ CanClick
  /\ IF session_number = <<>>
       THEN Refuse(Status, "Error: No session number provided")
       ELSE ExecuteCommand(Status)

\* _step7_download_results
DownloadResults ==
  /\ CanClick
  /\ IF session_number = <<>>
       THEN Refuse(Download, "Error: No session number provided")
       ELSE ExecuteCommand(Download)

SubmitNext ==
  \/ \E text \in SessionTexts : EditSession(text)
  \/ \E outcome \in SampleOutcomes, query_file \in QueryFiles :
       BrowseQueries(outcome, query_file)
  \/ \E selection_json \in SelectionPaths : SubmitJob(selection_json)
  \/ CheckStatus
  \/ DownloadResults
  \/ \E k \in DOMAIN workers : Launch(k)
  \/ \E k \in DOMAIN workers : ReadLine(k)
  \/ \E k \in DOMAIN workers : Wait(k)
  \/ \E k \in DOMAIN workers : Report(k)
  \/ UpdateButtonColor
  \/ PollerStart
  \/ PollerGet
  \/ PollerEmpty

\* the selector is left as it starts with its storage layer working
WorkflowInit == Init /\ lastOp.failed = 0

WorkflowSpec == WorkflowInit /\ [][WorkflowNext]_vars

SubmitSpec == WorkflowInit /\ [][SubmitNext]_vars

\* The event loop keeps running: a scheduled run of the poller is started
\* when its 100 ms are over, and a started run goes on to its next
\* get_nowait() and, on Empty, to its finally clause.
EventLoopRuns ==
  /\ WF_vars(PollerStart)
  /\ WF_vars(PollerGet)
  /\ WF_vars(PollerEmpty)

WorkflowLiveSpec == WorkflowInit /\ [][WorkflowNext]_vars /\ EventLoopRuns

(***************************************************************************)
(* Properties                                                              *)
(***************************************************************************)
ResultIds == {current_results[i] : i \in 1..Len(current_results)}

\* the pattern in force for column c: the trimmed entry text, none for the
\* placeholder
Pattern(c) == RegexValue(regex_vars, c)

ValidPattern(c) == Pattern(c) # <<>> /\ ReCompiles(Pattern(c))

MalformedPattern(c) == Pattern(c) # <<>> /\ ~ReCompiles(Pattern(c))

\* the texts of the full distinct value set of column c
FullTexts(c) == WidgetValues(all_values[Columns[c]])

\* the last handler refreshed the results and no query failed
RefreshedWithoutError == lastOp.refreshes > 0 /\ lastOp.failed = 0

\* the value stored in row id for column c is the text sel
StoredEquals(id, c, sel) ==
  LET v == catalog[id][Columns[c]] IN v.t = "text" /\ v.s = sel

\* C1: after a refresh without error in a Filter State with exact-match
\* values only, the Result Set holds exactly the catalog rows whose stored
\* value equals the selected value on every constrained attribute (each
\* once); with no selection it is the whole catalog.
C1_ExactMatchResult ==
  (RefreshedWithoutError /\ \A c \in ColIdx : Pattern(c) = <<>>) =>
    /\ Cardinality(ResultIds) = Len(current_results)
    /\ ResultIds =
         {id \in 1..Len(catalog) :
            \A c \in ColIdx :
              dropdown_vars[c] # <<>> => StoredEquals(id, c, dropdown_vars[c])}

\* C2: in every state left by a handler, a non-empty exact-match value is
\* one of the entries of its attribute's candidate list.
C2_SelectionIsCandidate ==
  \A c \in ColIdx :
    dropdown_vars[c] # <<>> => SeqContains(dropdowns[c], dropdown_vars[c])

\* a selection survives under a pattern that narrows its candidate list
C2_Witness ==
  \E c \in ColIdx :
    /\ dropdown_vars[c] # <<>>
    /\ ValidPattern(c)
    /\ Len(dropdowns[c]) < 1 + Len(FullTexts(c))

\* C3: after a filter edit whose refreshes all succeed, the cached and the
\* displayed Result Set are the query result of the Filter State the edit
\* leaves, also when the edit drops a selection and so refreshes twice.
C3_FreshAfterEdit ==
  (lastOp.op \in {"select", "edit", "focus"} /\ lastOp.failed = 0) =>
    /\ lastOp.refreshes > 0
    /\ current_results = Query(catalog, dropdown_vars, regex_vars)
    /\ results_text = current_results

\* an edit dropped a selection: the nested handler and the outer one both
\* refreshed, and the result is not the whole catalog
C3_Witness ==
  /\ lastOp.op = "edit"
  /\ lastOp.refreshes = 2
  /\ lastOp.failed = 0
  /\ Len(current_results) < Len(catalog)

\* C4: every candidate list starts with the empty choice, and under a valid
\* non-empty pattern the rest is the full distinct value set restricted to
\* the values the pattern finds (ignoring case), in the full set's order.
C4_CandidateList ==
  \A c \in ColIdx :
    LET Found(text) == ReSearch(Pattern(c), text)
    IN  /\ dropdowns[c] # <<>>
        /\ Head(dropdowns[c]) = <<>>
        /\ ValidPattern(c) => Tail(dropdowns[c]) = SelectSeq(FullTexts(c), Found)

\* a valid pattern keeps some values of an attribute and drops others
C4_Witness ==
  \E c \in ColIdx :
    /\ ValidPattern(c)
    /\ Len(dropdowns[c]) > 1
    /\ Len(dropdowns[c]) < 1 + Len(FullTexts(c))

\* C5: under a malformed pattern the candidate list is the empty choice
\* followed by the full distinct value set, and no error dialog is shown
\* unless a query failed in the storage layer.
C5_MalformedShowsAll ==
  \A c \in ColIdx :
    MalformedPattern(c) =>
      /\ dropdowns[c] = <<<<>>>> \o FullTexts(c)
      /\ lastOp.failed = 0 => "Query Error" \notin dialogs

\* an edit left a malformed pattern on an attribute that has values
C5_Witness ==
  \E c \in ColIdx :
    /\ MalformedPattern(c)
    /\ Len(FullTexts(c)) > 1
    /\ lastOp.op = "edit"
    /\ lastOp.failed = 0

\* C6: after a refresh that the storage layer answered, an attribute with a
\* malformed pattern and no exact-match value makes the Result Set empty
\* (never the whole catalog), and the refresh reports no error: no error
\* dialog, and the status counts zero rows.
C6_MalformedMatchesNothing ==
  (RefreshedWithoutError
     /\ \E c \in ColIdx : MalformedPattern(c) /\ dropdown_vars[c] = <<>>) =>
    /\ current_results = <<>>
    /\ results_text = <<>>
    /\ "Query Error" \notin dialogs
    /\ status = [kind |-> "Found", n |-> 0]

\* an edit typed a malformed pattern over a catalog that has rows
C6_Witness ==
  /\ lastOp.op = "edit"
  /\ RefreshedWithoutError
  /\ Len(catalog) > 0
  /\ \E c \in ColIdx : MalformedPattern(c) /\ dropdown_vars[c] = <<>>

\* the text a result row stores for the k-th ordering attribute
KeyText(id, k) == PyStr(catalog[id][OrderKey[k]])

\* row a comes strictly before row b by (owner, repo, primary language)
StrictlyBefore(a, b) ==
  \E k \in 1..Len(OrderKey) :
    /\ \A j \in 1..(k - 1) : KeyText(a, j) = KeyText(b, j)
    /\ TextLess(KeyText(a, k), KeyText(b, k))

\* C7: in every reachable state the cached Result Set is ordered
\* non-decreasingly by (owner, repo, primary language): no row comes
\* strictly before a row listed ahead of it.
C7_ResultsOrdered ==
  \A i, j \in 1..Len(current_results) :
    i < j => ~StrictlyBefore(current_results[j], current_results[i])

\* a filter edit produced several rows in an order other than storage order
C7_Witness ==
  /\ lastOp.op = "edit"
  /\ lastOp.failed = 0
  /\ Len(current_results) >= 3
  /\ \E i \in 1..(Len(current_results) - 1) :
       current_results[i] > current_results[i + 1]

\* the repository list inside the exported document
ExportedList ==
  IF exported.format = "gh-mrva" THEN exported.body["mirva-list"]
  ELSE exported.body.databases.variantAnalysis.repositoryLists[1].repositories

ExportedSet == {ExportedList[i] : i \in 1..Len(ExportedList)}

StrictlyAscending(seq) ==
  \A i \in 1..(Len(seq) - 1) : TextLess(seq[i], seq[i + 1])

\* "owner/repo" of the result row id
PairName(id) == KeyText(id, 1) \o <<"/">> \o KeyText(id, 2)

HasOwnerAndRepo(id) == KeyText(id, 1) # <<>> /\ KeyText(id, 2) # <<>>

\* C8 as stated: the exported list has exactly one "owner/repo" entry per
\* distinct owner/repo pair of the Result Set, in strictly ascending order,
\* whichever format is exported.
C8_OnePerPair ==
  exported.format # "none" =>
    /\ ExportedSet = {PairName(id) : id \in ResultIds}
    /\ StrictlyAscending(ExportedList)

\* C8 amended: the exported list has exactly one entry per distinct
\* "owner/repo" text formed from the Result Set rows whose owner and repo are
\* both non-empty, in strictly ascending order.  The list is fixed by the
\* Result Set alone, so both formats carry the same list.
C8_OnePerNamedPair ==
  exported.format # "none" =>
    /\ ExportedSet = {PairName(id) : id \in {r \in ResultIds : HasOwnerAndRepo(r)}}
    /\ StrictlyAscending(ExportedList)

\* an export of a Result Set with a repeated pair and a row without owner
C8_Witness ==
  /\ exported.format = "vscode"
  /\ Len(ExportedList) >= 2
  /\ \E i, j \in 1..Len(current_results) :
       i # j /\ PairName(current_results[i]) = PairName(current_results[j])
  /\ \E id \in ResultIds : ~HasOwnerAndRepo(id)

ExportOps == {"export_gh_mrva", "export_vscode"}

\* C9: an export triggered on an empty Result Set produces no document,
\* shows the warning and nothing else, and leaves the status as a refresh
\* set it.
C9_EmptyExportAborts ==
  (lastOp.op \in ExportOps /\ current_results = <<>>) =>
    /\ exported = NoDoc
    /\ dialogs = {"No Results"}
    /\ status.kind \in {"Found", "Query failed"}

\* an export was tried on an empty Result Set
C9_Witness ==
  /\ lastOp.op = "export_vscode"
  /\ current_results = <<>>
  /\ dialogs = {"No Results"}

\* the step is a handler all of whose refreshes failed
FailedRefreshStep ==
  lastOp'.refreshes > 0 /\ lastOp'.failed = lastOp'.refreshes

\* the step is an export that produces a document
ExportStep == lastOp'.op \in ExportOps /\ exported'.format # "none"

\* C10: a handler whose refreshes fail reports a query error and leaves the
\* cached and the shown Result Set as they were, changing only the status;
\* an export builds its list from the Result Set cached before it, stale
\* or not.
C10_FailureKeepsResults ==
  [][ /\ FailedRefreshStep =>
          /\ current_results' = current_results
          /\ results_text' = results_text
          /\ "Query Error" \in dialogs'
          /\ status' = [kind |-> "Query failed", n |-> 0]
      /\ ExportStep =>
          /\ current_results' = current_results
          /\ ExportedSet' = {PairName(id) : id \in {r \in ResultIds : HasOwnerAndRepo(r)}}
    ]_vars

\* a document was exported from a Result Set that a failed refresh left
\* behind: it is not the query result of the Filter State
C10_Witness ==
  /\ exported.format # "none"
  /\ current_results # Query(catalog, dropdown_vars, regex_vars)
  /\ Len(current_results) > 1

\* the regex entries, with the entry of every attribute that has an
\* exact-match value emptied
PatternsOfUnselected ==
  [c \in ColIdx |-> IF dropdown_vars[c] # <<>> THEN <<>> ELSE regex_vars[c]]

\* C11: after a refresh that the storage layer answered, the Result Set is
\* the query result of the Filter State with the pattern removed from every
\* attribute that has an exact-match value: where both are set, the pattern
\* adds no condition.
C11_ExactValueWins ==
  RefreshedWithoutError =>
    current_results = Query(catalog, dropdown_vars, PatternsOfUnselected)

\* an attribute has a selection and a pattern, and the Result Set holds a
\* row that the pattern does not find
C11_Witness ==
  /\ RefreshedWithoutError
  /\ \E c \in ColIdx :
       /\ dropdown_vars[c] # <<>>
       /\ Pattern(c) # <<>>
       /\ \E id \in ResultIds : ~Regexp(Pattern(c), catalog[id][Columns[c]])

\* attribute c is constrained by a regex condition
RegexConstrained(c) == Pattern(c) # <<>> /\ dropdown_vars[c] = <<>>

\* C12: after a refresh that the storage layer answered, no row of the
\* Result Set stores NULL for an attribute that is constrained by a regex
\* condition, whatever the pattern.
C12_NullNeverMatches ==
  RefreshedWithoutError =>
    \A c \in ColIdx :
      RegexConstrained(c) =>
        \A id \in ResultIds : catalog[id][Columns[c]] # Null

\* a pattern on one attribute alone finds rows, and the catalog has a row
\* with NULL for that attribute, which is left out
C12_Witness ==
  /\ RefreshedWithoutError
  /\ current_results # <<>>
  /\ \E c \in ColIdx :
       /\ RegexConstrained(c)
       /\ \A other \in ColIdx \ {c} :
            dropdown_vars[other] = <<>> /\ Pattern(other) = <<>>
       /\ \E id \in 1..Len(catalog) :
            catalog[id][Columns[c]] = Null /\ id \notin ResultIds

\* the step is a regex edit between two refreshes that the storage layer
\* answered, and it leaves every exact-match value as it was
PatternOnlyStep ==
  /\ lastOp'.op = "edit"
  /\ RefreshedWithoutError
  /\ RefreshedWithoutError'
  /\ dropdown_vars' = dropdown_vars

\* C13 as stated: a change of an attribute's pattern that leaves all
\* exact-match values the same does not change the Result Set.
C13_PatternKeepsResults ==
  [][ (PatternOnlyStep /\ regex_vars' # regex_vars) =>
        current_results' = current_results ]_vars

\* C13 amended: a change of the pattern of an attribute that has an
\* exact-match value, leaving all exact-match values the same, does not
\* change the Result Set.
C13_PatternOfSelectedKeepsResults ==
  [][ PatternOnlyStep =>
        \A c \in ColIdx :
          (regex_vars'[c] # regex_vars[c] /\ dropdown_vars[c] # <<>>) =>
            current_results' = current_results ]_vars

\* the last handler typed a pattern for the one attribute that has both a
\* pattern and a selection; the selection is older and was kept
C13_Witness ==
  /\ lastOp.op = "edit"
  /\ RefreshedWithoutError
  /\ current_results # <<>>
  /\ \E c \in ColIdx :
       /\ dropdown_vars[c] # <<>>
       /\ Pattern(c) # <<>>
       /\ \A other \in ColIdx \ {c} : regex_vars[other] = Placeholder

\* C14: an export step, whether it produces a document or stops with the
\* warning, leaves the Filter State, every candidate list, the full distinct
\* value sets and the cached and shown Result Set as they were.
C14_ExportChangesNoFilterState ==
  [][ lastOp'.op \in ExportOps =>
        /\ dropdown_vars' = dropdown_vars
        /\ regex_vars' = regex_vars
        /\ dropdowns' = dropdowns
        /\ all_values' = all_values
        /\ current_results' = current_results
        /\ results_text' = results_text ]_vars

\* a document was exported under a selection and a narrowed candidate list
C14_Witness ==
  /\ lastOp.op = "export_gh_mrva"
  /\ exported.format = "gh-mrva"
  /\ \E c \in ColIdx : dropdown_vars[c] # <<>>
  /\ \E c \in ColIdx : Len(dropdowns[c]) < 1 + Len(FullTexts(c))

\* C15: whenever an export produces a document, the repository list in it
\* has at least one entry, also when every row of the Result Set lacks an
\* owner or a repo.
C15_NoEmptyDocument ==
  exported.format # "none" => ExportedList # <<>>

\* C16: a step that changes the regex entry of one attribute clears that
\* attribute's exact-match value if and only if the value is not in the
\* attribute's new candidate list, and leaves the exact-match values of the
\* other attributes as they were.
C16_ClearedIffNotCandidate ==
  [][ lastOp'.op \in {"edit", "focus"} =>
        \A c \in ColIdx :
          regex_vars'[c] # regex_vars[c] =>
            /\ dropdown_vars'[c] =
                 IF SeqContains(dropdowns'[c], dropdown_vars[c])
                   THEN dropdown_vars[c] ELSE <<>>
            /\ \A other \in ColIdx \ {c} :
                 dropdown_vars'[other] = dropdown_vars[other] ]_vars

\* a regex edit dropped a selection (the nested handler refreshed as well)
\* and left a narrowed candidate list on an attribute without selection
C16_Witness ==
  /\ lastOp.op = "edit"
  /\ lastOp.refreshes >= 2
  /\ \E c \in ColIdx :
       /\ ValidPattern(c)
       /\ dropdown_vars[c] = <<>>
       /\ Len(dropdowns[c]) < 1 + Len(FullTexts(c))

\* C17: in the state Clear All Filters leaves, no attribute has an
\* exact-match value or a pattern in force, every candidate list is the
\* empty choice followed by the full distinct value set, and unless a query
\* failed the Result Set holds every catalog row once.
C17_ClearAllResets ==
  lastOp.op = "clear" =>
    /\ \A c \in ColIdx :
         /\ dropdown_vars[c] = <<>>
         /\ Pattern(c) = <<>>
         /\ dropdowns[c] = <<<<>>>> \o FullTexts(c)
    /\ lastOp.failed = 0 =>
         /\ ResultIds = 1..Len(catalog)
         /\ Len(current_results) = Len(catalog)
         /\ results_text = current_results

\* Clear All Filters ran without a failed query from a state in which a
\* regex entry had been emptied: that entry's delete wrote nothing, so the
\* handler refreshed fewer times than from the initial state
C17_Witness ==
  /\ lastOp.op = "clear"
  /\ lastOp.failed = 0
  /\ lastOp.refreshes > 0
  /\ lastOp.refreshes < 1 + 3 * NumColumns

\* the entry of attribute c, trimmed, is empty or the placeholder
BlankEntry(c) == Strip(regex_vars[c]) \in {<<>>, Placeholder}

\* the regex entries, with every blank entry emptied
EntriesWithoutBlanks ==
  [c \in ColIdx |-> IF BlankEntry(c) THEN <<>> ELSE regex_vars[c]]

\* C18: an attribute whose entry is blank has the full candidate list, and
\* after a refresh that the storage layer answered the entry adds no
\* condition: the Result Set is the query result with the blank entries
\* emptied, and the whole catalog when no attribute has a selection or a
\* non-blank entry.
C18_BlankEntryIsNoPattern ==
  /\ \A c \in ColIdx :
       BlankEntry(c) => dropdowns[c] = <<<<>>>> \o FullTexts(c)
  /\ RefreshedWithoutError =>
       /\ current_results = Query(catalog, dropdown_vars, EntriesWithoutBlanks)
       /\ (\A c \in ColIdx : BlankEntry(c) /\ dropdown_vars[c] = <<>>) =>
            Len(current_results) = Len(catalog)

\* the user typed white space into an entry; the others hold the
\* placeholder, and the refresh found every row
C18_Witness ==
  /\ lastOp.op = "edit"
  /\ RefreshedWithoutError
  /\ \E c \in ColIdx :
       /\ regex_vars[c] = <<" ">>
       /\ \A other \in ColIdx \ {c} : regex_vars[other] = Placeholder
  /\ Len(current_results) = Len(catalog)

\* the items command k has put so far, in the order run() produces them:
\* the logged command, the lines its process emitted, then its last message
Produced(k) ==
  LET w == workers[k]
  IN  <<LogItem(k, w.step)>>
      \o [i \in 1..w.emitted |-> LineItem(k, w.step, i)]
      \o (IF w.pc # "done" THEN <<>>
          ELSE IF w.exc # "" THEN <<ErrorItem(k, w.step, w.exc)>>
          ELSE <<ExitItem(k, w.step, w.returncode)>>)

IsPrefix(s, t) == Len(s) <= Len(t) /\ SubSeq(t, 1, Len(s)) = s

\* the displayed items that came from command k, in display order
Shown(k) == SelectSeq(output_text, LAMBDA item : item.cmd = k)

\* C19: the display holds the first items put on the queue, in the order
\* they were put and each once; and what it shows of one command is the
\* start of what that command produced: its lines in the order its process
\* emitted them, and its completion, failure or error message only after
\* all of its lines, however the commands' items interleave.
C19_DisplayedInOrderOnce ==
  /\ IsPrefix(output_text, enqueued)
  /\ output_text \o output_queue = enqueued
  /\ \A k \in DOMAIN workers : IsPrefix(Shown(k), Produced(k))

\* two commands have ended and all their items are displayed, a line of
\* the second lying between a line of the first and the first's last message
C19_Witness ==
  /\ Len(workers) = 2
  /\ \A k \in DOMAIN workers : workers[k].pc = "done"
  /\ output_queue = <<>>
  /\ \E i, j, l \in DOMAIN output_text :
       /\ i < j /\ j < l
       /\ output_text[i].cmd = 1 /\ output_text[i].kind = "line"
       /\ output_text[j].cmd = 2 /\ output_text[j].kind = "line"
       /\ output_text[l].cmd = 1 /\ output_text[l].kind # "line"

\* run() of command k has ended
Terminated(k) == workers[k].pc = "done"

\* what the error message of command k has to carry: the exception text,
\* or the exit code
Failure(k) ==
  IF workers[k].exc # "" THEN workers[k].exc ELSE workers[k].returncode

\* an item tagged "error" that came from command k and carries detail was
\* put on the queue
ErrorEnqueued(k, detail) ==
  \E i \in DOMAIN enqueued :
    /\ enqueued[i].tag = "error"
    /\ enqueued[i].cmd = k
    /\ enqueued[i].step = workers[k].step
    /\ enqueued[i].detail = detail

\* C20: for every command whose thread has ended, the colour asked for its
\* step's button is green exactly when the process returned exit code 0;
\* after a nonzero exit code, or an exception at launch or while reading,
\* the colour asked for is red and an error item carrying that exit code
\* or that exception text was put on the queue.
C20_GreenIffExitZero ==
  \A k \in DOMAIN workers :
    Terminated(k) =>
      /\ workers[k].requested = "green" <=> workers[k].returncode = 0
      /\ workers[k].returncode # 0 =>
           /\ workers[k].requested = "red"
           /\ ErrorEnqueued(k, Failure(k))

\* a command of step 1 ended with exit code 0 and one of step 2 with exit
\* code 1 or an exception while reading; both callbacks ran: button 1 is
\* green and button 2 is red
C20_Witness ==
  /\ \E k \in DOMAIN workers :
       Terminated(k) /\ workers[k].step = 1 /\ workers[k].returncode = 0
  /\ \E k \in DOMAIN workers :
       /\ Terminated(k) /\ workers[k].step = 2
       /\ workers[k].returncode = 1 \/ workers[k].exc = ReadError
  /\ after_queue = <<>>
  /\ step_buttons[1] = "#90EE90"
  /\ step_buttons[2] = "#FFB6C6"

\* this step handles a click on the button of step
ClickOf(step) == clicked' = Append(clicked, step)

\* what step needs from the user is missing when its button is clicked
Missing(step) ==
  \/ session_number = <<>>
  \/ step = Submit /\ selected_query_path = <<>>

\* this step puts exactly one item, tagged "error"
PutsOneError ==
  /\ Len(enqueued') = Len(enqueued) + 1
  /\ SubSeq(enqueued', 1, Len(enqueued)) = enqueued
  /\ enqueued'[Len(enqueued')].tag = "error"

\* C21: a click on Submit Job with no query file selected or an empty
\* session, or on Check Status or Download Results with an empty session,
\* starts no command, puts an error item on the queue and leaves the
\* step's button red.
C21_MissingInputRefused ==
  [][\A step \in {Submit, Status, Download} :
       ClickOf(step) /\ Missing(step) =>
         /\ workers' = workers
         /\ PutsOneError
         /\ step_buttons'[step] = Background("red")]_vars

\* every item put on the queue so far has been taken off it and appended
\* to the display, in the order of the puts
AllDisplayed == output_queue = <<>> /\ output_text = enqueued

\* C22: while the event loop keeps running, a run of the poller always ends
\* with the next run scheduled, whether it found items or not, and every
\* item put on the queue, by the main thread or by a command's thread, is
\* in the end taken off the queue and appended to the display: whatever has
\* been put, a later state has all of it displayed.
C22_EveryItemDisplayed ==
  /\ (poller = "running") ~> (poller = "scheduled")
  /\ []<>AllDisplayed

\* both commands have ended, each after a line of its own, everything they
\* put is displayed, and the next run of the poller is scheduled
C22_Witness ==
  /\ Len(workers) = MaxCommands
  /\ \A k \in DOMAIN workers : workers[k].pc = "done" /\ workers[k].emitted > 0
  /\ output_queue = <<>>
  /\ output_text = enqueued
  /\ poller = "scheduled"
=============================================================================
